---- MODULE Spec2Model ----
(***************************************************************************)
(* Model of captcha-rs, src/src/lib.rs: one call of Config::generate as a  *)
(* state machine.  The position in generate is pc; each action is one      *)
(* straight-line block or one loop iteration of the function.              *)
(*                                                                         *)
(* Numbers.  u32/i64 values are integers.  f32 values are exact rationals: *)
(*   - spacing and x_offset are numerators over (length + 1);              *)
(*   - angles, sines and cosines are fixed point with Scale units per 1.0; *)
(*   - rotated sizes are numerators over 2 * Scale.                        *)
(* f32 rounding is not modelled.                                           *)
(*                                                                         *)
(* Collaborators.  The font file read at line 39 is an input of the call   *)
(* (font_file, fixed in Init); fontdue's rasterizer returns one of the     *)
(* glyph shapes of that font; the PNG encoder either succeeds or fails.    *)
(* The random source returns the extreme values of the range asked for.    *)
(***************************************************************************)
EXTENDS Integers, Sequences, FiniteSets, TLC

VARIABLES
    config,            \* the Config the call runs on (lines 9-15)
    font_file,         \* what "Arial.ttf" holds on disk (line 39)
    pc,                \* position in generate
    charset,           \* line 31
    captcha_text,      \* line 35
    font_size,         \* line 42
    img,               \* the canvas, line 54
    rasterized_fonts,  \* line 59, consumed by the loop of line 69
    spacing,           \* line 65, numerator over length + 1
    x_offset,          \* line 67, numerator over length + 1
    placed,            \* locals of the last iteration of the loop of line 69
    lines_drawn,       \* iterations done of the loop of line 111
    curves_drawn,      \* iterations done of the loop of line 115
    stroke,            \* the path of the last stroke drawn (draw_line, draw_cubic_line)
    events,            \* the canvas-mutating events so far, in order
    outcome,           \* "running", "ok", "err" or "panic"
    fault,             \* what made the call fail, "none" if nothing did
    result             \* the value returned at line 122

vars == <<config, font_file, pc, charset, captcha_text, font_size, img,
          rasterized_fonts, spacing, x_offset, placed, lines_drawn,
          curves_drawn, stroke, events, outcome, fault, result>>

(***************************************************************************)
(* Bounds of the model.                                                    *)
(***************************************************************************)
MaxLength == 2
MaxWidth == 8
MaxHeight == 2
AngleDen == 2

(***************************************************************************)
(* Program constants.                                                      *)
(***************************************************************************)
NumLinesShort == 5 - 1
NumLines == 5
NumCurves == 2
LineAlpha == 255
CurveAlpha == 128
Scale == 10000
PI == 31416

None == [none |-> TRUE]

Min(a, b) == IF a <= b THEN a ELSE b
Max(a, b) == IF a >= b THEN a ELSE b
Range(s) == {s[i] : i \in DOMAIN s}

\* Rust integer division and float-to-integer casts truncate toward zero.
TruncDiv(n, d) == IF n >= 0 THEN n \div d ELSE -((-n) \div d)

(***************************************************************************)
(* Charset Sampler, lines 31-37.                                           *)
(***************************************************************************)
\* The charset with the lowercase o left in.
CharsetWithLowerO ==
    << "2", "3", "4", "5", "6", "7", "8", "9",
       "A", "B", "C", "D", "E", "F", "G", "H", "J", "K", "L", "M", "N",
       "P", "Q", "R", "S", "T", "U", "V", "W", "X", "Y", "Z",
       "a", "b", "c", "d", "e", "f", "g", "h", "i", "j", "k", "m", "n", "o",
       "p", "q", "r", "s", "t", "u", "v", "w", "x", "y", "z" >>

CharsetString ==
    << "2", "3", "4", "5", "6", "7", "8", "9",
       "A", "B", "C", "D", "E", "F", "G", "H", "J", "K", "L", "M", "N",
       "P", "Q", "R", "S", "T", "U", "V", "W", "X", "Y", "Z",
       "a", "b", "c", "d", "e", "f", "g", "h", "i", "j", "k", "m", "n",
       "p", "q", "r", "s", "t", "u", "v", "w", "x", "y", "z" >>

\* rng.random_range(lo..hi): the values the model lets the random source
\* return, the two ends of the half-open range; empty when the range is,
\* which makes random_range panic.
RandomRange(lo, hi) == IF lo >= hi THEN {} ELSE {lo, hi - 1}

\* charset.choose(&mut rng): the characters the model lets it return, the
\* first of the charset (a wide glyph) and "i" (the narrowest glyph).
Choose(cs) == {cs[j] : j \in {j \in DOMAIN cs : j = 1 \/ cs[j] = "i"}}

\* The sampler looping over 0..=self.length.
SampleTextsInclusive(cs, length) == [1..(length + 1) -> Choose(cs)]

\* (0..self.length).map(|_| *charset.choose(&mut rng).unwrap()).collect()
SampleTexts(cs, length) == [1..length -> Choose(cs)]

(***************************************************************************)
(* Fixed-point trigonometry for f32::cos and f32::sin (lines 138-139).     *)
(* Taylor polynomials; on |angle| <= PI/8 the error is below 2 / Scale.    *)
(***************************************************************************)
Abs(a) == IF a >= 0 THEN a ELSE -a
FMul(a, b) == (a * b) \div Scale

Cos(angle) ==
    LET a2 == FMul(Abs(angle), Abs(angle))
        a4 == FMul(a2, a2)
    IN  Scale - a2 \div 2 + a4 \div 24

Sin(angle) ==
    LET a  == Abs(angle)
        a2 == FMul(a, a)
        a3 == FMul(a2, a)
        a5 == FMul(a3, a2)
        s  == a - a3 \div 6 + a5 \div 120
    IN  IF angle >= 0 THEN s ELSE -s

SetMin(S) == CHOOSE m \in S : \A v \in S : m <= v
SetMax(S) == CHOOSE m \in S : \A v \in S : m >= v

\* rotated_rect_size, lines 137-167.  The corners are kept doubled (hw = width / 2),
\* so the sizes returned are numerators over 2 * Scale.
rotated_rect_size(width, height, angle) ==
    LET cos_a == Cos(angle)
        sin_a == Sin(angle)
        corners == { <<-width, -height>>, <<width, -height>>,
                     <<width, height>>, <<-width, height>> }
        rx == { c[1] * cos_a - c[2] * sin_a : c \in corners }
        ry == { c[1] * sin_a + c[2] * cos_a : c \in corners }
    IN  [rotated_width  |-> SetMax(rx) - SetMin(rx),
         rotated_height |-> SetMax(ry) - SetMin(ry)]

\* `x as u32` of a non-negative f32 kept as a numerator over 2 * Scale.
AsU32(num) == num \div (2 * Scale)

\* The angles the model lets line 82 draw: (PI / 8.0) * r for the values r
\* of -1.0..1.0 that are multiples of 1 / AngleDen.
AngleDraws == { k \in -AngleDen..(AngleDen - 1) : TRUE }
RotateAngle(k) == TruncDiv((PI \div 8) * k, AngleDen)

(***************************************************************************)
(* Images: an RgbaImage is its dimensions; pixel values are not modelled.  *)
(***************************************************************************)
NewImage(w, h) == [width |-> w, height |-> h]

\* RgbaImage::from_raw: None when the buffer is too small for width x height.
FromRaw(w, h, len) == IF len >= w * h * 4 THEN NewImage(w, h) ELSE None

\* An overlay that leaves the canvas with the size of what was laid on it.
OverlayResized(bottom, top, x, y) == NewImage(top.width, top.height)

\* imageops::overlay(bottom, top, x, y): the part of top that falls inside
\* bottom is blended in; bottom keeps its dimensions.
Overlay(bottom, top, x, y) == NewImage(bottom.width, bottom.height)

\* The number of columns (rows) of top that land inside bottom.
Visible(bottom_dim, top_dim, at) ==
    LET lo == Max(0, at)
        hi == IF at >= bottom_dim THEN lo ELSE Min(bottom_dim, at + top_dim)
    IN  Max(0, hi - lo)

\* imageproc rotate_about_center returns an image of the size of its input.
rotate_about_center(image, angle) == NewImage(image.width, image.height)

\* (a - b) / 2 in u32 when the subtraction wraps (release build, a < b):
\* ((a - b) mod 2^32) / 2, which is below 2^31.
WrappedHalf(a, b) == 2147483647 + ((a - b) \div 2 + 1)

(***************************************************************************)
(* Fonts.  font.rasterize(c, font_size) returns metrics and a coverage     *)
(* bitmap of metrics.width * metrics.height bytes (line 61).  A font is    *)
(* modelled by two glyph shapes at each size: a narrow tall one for i and  *)
(* j and a wide one for every other character.  In the proportional font   *)
(* no advance exceeds the font size; in the oversize font the wide glyph   *)
(* advances by twice the font size.                                        *)
(***************************************************************************)
FontFiles == {"missing", "malformed", "proportional", "oversize"}

Glyph(w, h, adv) == [width |-> w, height |-> h, advance_width |-> adv]

NarrowGlyph(fs) ==
    IF fs = 0 THEN Glyph(0, 0, 0)
    ELSE Glyph(Max(1, fs \div 8), Max(1, (3 * fs) \div 4), (fs + 3) \div 4)

WideGlyph(fs, adv) ==
    IF fs = 0 THEN Glyph(0, 0, 0)
    ELSE Glyph(fs, Max(1, (3 * fs) \div 4), adv)

Rasterize(file, c, fs) ==
    IF c \in {"i", "j"} THEN NarrowGlyph(fs)
    ELSE IF file = "proportional" THEN WideGlyph(fs, fs)
    ELSE WideGlyph(fs, 2 * fs)

RECURSIVE SumAdvance(_)
SumAdvance(gs) ==
    IF gs = <<>> THEN 0 ELSE Head(gs).advance_width + SumAdvance(Tail(gs))

(***************************************************************************)
(* The configurations the call is run on: every small one, and the narrow  *)
(* ones of the end-to-end scenario (length 6 on a canvas 60 wide, taller   *)
(* and lower than the font size 60 / 6).                                   *)
(***************************************************************************)
Config(l, w, h) == [length |-> l, width |-> w, height |-> h]

Configs ==
    { Config(l, w, h) : l \in 1..MaxLength, w \in 1..MaxWidth, h \in 1..MaxHeight }
    \cup { Config(6, 60, 80), Config(6, 60, 8) }

Init ==
    /\ config \in Configs
    /\ font_file \in FontFiles
    /\ pc = "sample"
    /\ charset = <<>>
    /\ captcha_text = <<>>
    /\ font_size = 0
    /\ img = None
    /\ rasterized_fonts = <<>>
    /\ spacing = 0
    /\ x_offset = 0
    /\ placed = None
    /\ lines_drawn = 0
    /\ curves_drawn = 0
    /\ stroke = None
    /\ events = <<>>
    /\ outcome = "running"
    /\ fault = "none"
    /\ result = None

\* A panic unwinds out of generate: nothing is returned.
Panic(site) ==
    /\ outcome' = "panic"
    /\ fault' = site
    /\ pc' = "done"

\* `?` on an Err: generate returns the error.
ReturnErr(why) ==
    /\ outcome' = "err"
    /\ fault' = why
    /\ pc' = "done"

\* Lines 31-37.
Sample ==
    /\ pc = "sample"
    /\ charset' = CharsetString
    /\ captcha_text' \in SampleTexts(charset', config.length)
    /\ pc' = "font"
    /\ UNCHANGED <<config, font_file, font_size, img, rasterized_fonts, spacing,
                   x_offset, placed, lines_drawn, curves_drawn, stroke, events,
                   outcome, fault, result>>

\* Lines 39-40: std::fs::read("Arial.ttf")? and Font::from_bytes(..)?.
LoadFont ==
    /\ pc = "font"
    /\ IF font_file = "missing" THEN ReturnErr("font_read")
       ELSE IF font_file = "malformed" THEN ReturnErr("font_parse")
       ELSE pc' = "layout" /\ UNCHANGED <<outcome, fault>>
    /\ UNCHANGED <<config, font_file, charset, captcha_text, font_size, img,
                   rasterized_fonts, spacing, x_offset, placed, lines_drawn,
                   curves_drawn, stroke, events, result>>

\* Line 42.
FontSize(cfg) == Min(cfg.width \div cfg.length, cfg.height)

\* A spacing clamped at zero.
SpacingClamped(cfg, glyphs) == Max(0, cfg.width - SumAdvance(glyphs))

\* Line 65, as a numerator over length + 1: no clamping.
Spacing(cfg, glyphs) == cfg.width - SumAdvance(glyphs)

\* Line 67.
StartCursor(sp) == sp

\* A cursor advanced by the spacing alone.
AdvanceCursorNoGlyph(x, glyph, sp, cfg) == x + sp

\* Line 106, on numerators over length + 1.
AdvanceCursor(x, glyph, sp, cfg) ==
    x + glyph.advance_width * (cfg.length + 1) + sp

\* Lines 42-67: font size, the canvas, the rasterized glyphs, the spacing
\* and the start of the cursor.
Layout ==
    /\ pc = "layout"
    /\ font_size' = FontSize(config)
    /\ img' = NewImage(config.width, config.height)
    /\ rasterized_fonts' =
           [i \in 1..config.length |-> Rasterize(font_file, captcha_text[i], font_size')]
    /\ spacing' = Spacing(config, rasterized_fonts')
    /\ x_offset' = StartCursor(spacing')
    /\ pc' = "glyphs"
    /\ UNCHANGED <<config, font_file, charset, captcha_text, placed, lines_drawn,
                   curves_drawn, stroke, events, outcome, fault, result>>

\* Lines 91-92: (rotated as u32 - original) / 2 as i64.  Overflows(..) is
\* the case where the u32 subtraction has no value: a build with overflow
\* checks panics there, a build without them wraps.
Overflows(rotated, original) == rotated < original
CenterOffset(rotated, original, wraps) ==
    IF wraps THEN WrappedHalf(rotated, original) ELSE (rotated - original) \div 2

\* Line 102.
PlaceX(x, cfg, rotated_width, glyph_width) ==
    TruncDiv(x, cfg.length + 1) - TruncDiv(rotated_width - glyph_width, 2)

\* Line 103.
PlaceY(cfg, rotated_height) == TruncDiv(cfg.height - rotated_height, 2)

\* Lines 69-107, one iteration of the loop over the rasterized glyphs.
PlaceGlyph ==
    /\ pc = "glyphs"
    /\ rasterized_fonts # <<>>
    /\ LET metrics  == Head(rasterized_fonts)
           font_img == FromRaw(metrics.width, metrics.height,
                               4 * (metrics.width * metrics.height))
       IN
       IF font_img = None
       THEN /\ Panic("from_raw")
            /\ UNCHANGED <<img, rasterized_fonts, x_offset, placed, events>>
       ELSE \E k \in AngleDraws :
            LET rotate_angle == RotateAngle(k)
                size == rotated_rect_size(metrics.width, metrics.height, rotate_angle)
                rw == AsU32(size.rotated_width)
                rh == AsU32(size.rotated_height)
                wraps_x == Overflows(rw, font_img.width)
                wraps_y == Overflows(rh, font_img.height)
                off_x == CenterOffset(rw, font_img.width, wraps_x)
                off_y == CenterOffset(rh, font_img.height, wraps_y)
                expanded == Overlay(NewImage(rw, rh), font_img, off_x, off_y)
                rotated == rotate_about_center(expanded, rotate_angle)
                px == PlaceX(x_offset, config, rw, font_img.width)
                py == PlaceY(config, rotated.height)
            IN
            \/ /\ wraps_x \/ wraps_y
               /\ Panic("sub_overflow")
               /\ UNCHANGED <<img, rasterized_fonts, x_offset, placed, events>>
            \/ /\ img' = Overlay(img, rotated, px, py)
               /\ placed' = [glyph |-> metrics, angle |-> k, cursor |-> x_offset,
                             rotated_width |-> rw, rotated_height |-> rh,
                             wrapped |-> wraps_x \/ wraps_y,
                             off_x |-> off_x, off_y |-> off_y,
                             shown_w |-> Visible(rw, font_img.width, off_x),
                             shown_h |-> Visible(rh, font_img.height, off_y),
                             px |-> px, py |-> py]
               /\ x_offset' = AdvanceCursor(x_offset, metrics, spacing, config)
               /\ rasterized_fonts' = Tail(rasterized_fonts)
               /\ events' = Append(events, "glyph")
               /\ pc' = IF Tail(rasterized_fonts) = <<>> THEN "lines" ELSE "glyphs"
               /\ UNCHANGED <<outcome, fault>>
    /\ UNCHANGED <<config, font_file, charset, captcha_text, font_size, spacing,
                   lines_drawn, curves_drawn, stroke, result>>

(***************************************************************************)
(* Noise Drawer, lines 169-266.                                            *)
(***************************************************************************)
\* width.try_into().unwrap(): u32 to i32, None above i32::MAX.
TryIntoI32(v) == IF v <= 2147483647 THEN v ELSE -1

\* merge, lines 169-189: the overlay buffer becomes an RgbaImage of its own
\* size (four bytes for each of its width * height pixels) and is overlaid
\* on the canvas at (0, 0).  None when from_raw(..).unwrap() panics.
merge(image, dt) ==
    LET font_img == FromRaw(dt.width, dt.height, 4 * (dt.width * dt.height))
    IN  IF font_img = None THEN None ELSE Overlay(image, font_img, 0, 0)

\* Lines 206-209: the ranges of the four coordinates of a line.
LineRanges(image) ==
    [x |-> RandomRange(0, image.width), y |-> RandomRange(0, image.height)]

\* A control point drawn from width / 4 .. width * 3.
CurveRangesWide(image) ==
    [y  |-> RandomRange(0, image.height),
     cx |-> RandomRange(image.width \div 4, image.width * 3)]

\* Lines 237-243: the ranges of a curve's coordinates; x1 = 0 and x2 = width.
CurveRanges(image) ==
    [y  |-> RandomRange(0, image.height),
     cx |-> RandomRange(image.width \div 4, (image.width \div 4) * 3)]

LinePath(x1, y1, x2, y2) ==
    [kind |-> "line", from |-> <<x1, y1>>, to |-> <<x2, y2>>, alpha |-> LineAlpha]

\* Lines 248-251: pb.cubic_to(cx, cy, cx, cy, x2, y2).
CubicPath(x1, y1, cx, cy, x2, y2) ==
    [kind |-> "curve", from |-> <<x1, y1>>, c1 |-> <<cx, cy>>, c2 |-> <<cx, cy>>,
     to |-> <<x2, y2>>, alpha |-> CurveAlpha]

\* A stroke drawn on a fresh overlay buffer of the canvas's size and merged.
Stroked(path, next_pc) ==
    LET w  == TryIntoI32(img.width)
        h  == TryIntoI32(img.height)
        dt == NewImage(w, h)
        merged == IF w < 0 \/ h < 0 THEN None ELSE merge(img, dt)
    IN  IF merged = None
        THEN /\ Panic("overlay_buffer")
             /\ UNCHANGED <<img, stroke, events>>
        ELSE /\ img' = merged
             /\ stroke' = path
             /\ events' = events \o <<path.kind, "merge">>
             /\ pc' = next_pc
             /\ UNCHANGED <<outcome, fault>>

\* One iteration of the loop of lines 111-113: draw_line, lines 201-230.
DrawLine ==
    /\ pc = "lines"
    /\ lines_drawn < NumLines
    /\ LET r == LineRanges(img)
       IN  IF r.x = {} \/ r.y = {}
           THEN /\ Panic("empty_range")
                /\ UNCHANGED <<img, stroke, events, lines_drawn>>
           ELSE \E x1 \in r.x, y1 \in r.y, x2 \in r.x, y2 \in r.y :
                /\ Stroked(LinePath(x1, y1, x2, y2),
                           IF lines_drawn + 1 = NumLines THEN "curves" ELSE "lines")
                /\ lines_drawn' = IF pc' = "done" THEN lines_drawn ELSE lines_drawn + 1
    /\ placed' = None
    /\ UNCHANGED <<config, font_file, charset, captcha_text, font_size,
                   rasterized_fonts, spacing, x_offset, curves_drawn, result>>

\* One iteration of the loop of lines 115-117: draw_cubic_line, lines 232-266.
DrawCubicLine ==
    /\ pc = "curves"
    /\ curves_drawn < NumCurves
    /\ LET r == CurveRanges(img)
       IN  IF r.y = {} \/ r.cx = {}
           THEN /\ Panic("empty_range")
                /\ UNCHANGED <<img, stroke, events, curves_drawn>>
           ELSE \E y1 \in r.y, y2 \in r.y, cx \in r.cx, cy \in r.y :
                /\ Stroked(CubicPath(0, y1, cx, cy, img.width, y2),
                           IF curves_drawn + 1 = NumCurves THEN "encode" ELSE "curves")
                /\ curves_drawn' = IF pc' = "done" THEN curves_drawn ELSE curves_drawn + 1
    /\ UNCHANGED <<config, font_file, charset, captcha_text, font_size,
                   rasterized_fonts, spacing, x_offset, placed, lines_drawn, result>>

\* Lines 119-122: img.write_to(&mut buffer, Png).unwrap(), then Ok((text, bytes)).
\* The encoded image is kept as the dimensions a decoder reads back.
Encode ==
    /\ pc = "encode"
    /\ \E written \in BOOLEAN :
         IF written
         THEN /\ result' = [text |-> captcha_text, image |-> img]
              /\ events' = Append(events, "encode")
              /\ outcome' = "ok"
              /\ pc' = "done"
              /\ UNCHANGED fault
         ELSE /\ Panic("encode")
              /\ UNCHANGED <<result, events>>
    /\ UNCHANGED <<config, font_file, charset, captcha_text, font_size, img,
                   rasterized_fonts, spacing, x_offset, placed, lines_drawn,
                   curves_drawn, stroke>>

Next ==
    \/ Sample
    \/ LoadFont
    \/ Layout
    \/ PlaceGlyph
    \/ DrawLine
    \/ DrawCubicLine
    \/ Encode

Spec == Init /\ [][Next]_vars

(***************************************************************************)
(* Properties.                                                             *)
(***************************************************************************)
FontLoaded == font_file \in {"proportional", "oversize"}
Started == pc \notin {"sample", "font", "layout"}
GlyphsPlaced == Cardinality({i \in DOMAIN events : events[i] = "glyph"})
IsPrefix(s, t) == Len(s) <= Len(t) /\ \A i \in DOMAIN s : s[i] = t[i]
Repeat(s, n) == [i \in 1..(n * Len(s)) |-> s[((i - 1) % Len(s)) + 1]]

\* The glyphs of the whole text, as line 59 rasterizes them.
TextGlyphs ==
    [i \in DOMAIN captcha_text |-> Rasterize(font_file, captcha_text[i], font_size)]

Ambiguous == {"0", "1", "O", "I", "l"}
Digits2to9 == {"2", "3", "4", "5", "6", "7", "8", "9"}
Uppercase == {"A", "B", "C", "D", "E", "F", "G", "H", "I", "J", "K", "L", "M",
              "N", "O", "P", "Q", "R", "S", "T", "U", "V", "W", "X", "Y", "Z"}
Lowercase == {"a", "b", "c", "d", "e", "f", "g", "h", "i", "j", "k", "l", "m",
              "n", "o", "p", "q", "r", "s", "t", "u", "v", "w", "x", "y", "z"}

\* C1: the text generate returns has exactly config.length characters, all
\* of them from the charset, and the charset holds none of 0, 1, O, I, l.
C1_TextLengthAndAlphabet ==
    outcome = "ok" =>
        /\ Len(result.text) = config.length
        /\ \A i \in DOMAIN result.text : result.text[i] \in Range(charset)
        /\ Range(charset) \cap Ambiguous = {}

C1_Witness ==
    /\ outcome = "ok"
    /\ config.length = 2
    /\ result.text[1] # result.text[2]

\* C2 as stated: the charset has exactly 58 symbols, the digits 2-9, the
\* uppercase letters without I and O, and the lowercase letters without l.
C2_Original ==
    pc # "sample" =>
        /\ Len(charset) = 58
        /\ Range(charset) =
               Digits2to9 \cup (Uppercase \ {"I", "O"}) \cup (Lowercase \ {"l"})

\* C2 amended: the charset has exactly 56 distinct symbols, the digits 2-9,
\* the uppercase letters without I and O, and the lowercase letters without
\* l and o; every character of the text is one of them.
C2_Charset56 ==
    pc # "sample" =>
        /\ Len(charset) = 56
        /\ Cardinality(Range(charset)) = 56
        /\ Range(charset) =
               Digits2to9 \cup (Uppercase \ {"I", "O"}) \cup (Lowercase \ {"l", "o"})
        /\ \A i \in DOMAIN captcha_text : captcha_text[i] \in Range(charset)

C2_Witness ==
    /\ pc = "font"
    /\ Len(charset) = 56
    /\ \E i \in DOMAIN captcha_text : captcha_text[i] = "i"

\* C3: from its creation on, through every glyph overlay and every stroke
\* merge, the canvas is config.width x config.height, and so is the image
\* that is returned.
C3_CanvasDimensions ==
    /\ img # None => img.width = config.width /\ img.height = config.height
    /\ outcome = "ok" =>
           result.image.width = config.width /\ result.image.height = config.height

\* A glyph laid partly outside the canvas, which kept its size.
C3_Witness ==
    /\ placed # None
    /\ placed.px < 0 \/ placed.px + placed.rotated_width > config.width
         \/ placed.py < 0 \/ placed.py + placed.rotated_height > config.height
    /\ img = NewImage(config.width, config.height)

C5_FailuresReturnErr ==
    (pc = "done" /\ fault \in {"font_read", "font_parse", "from_raw",
                               "overlay_buffer", "encode"}) =>
        outcome = "err" /\ result = None

\* The cursor rule of lines 67 and 106: the cursor starts at spacing and
\* moves by advance_width + spacing after each glyph, taken in text order.
CursorRule ==
    /\ (pc = "glyphs" /\ placed = None) => x_offset = spacing
    /\ placed # None =>
           /\ placed.glyph = TextGlyphs[GlyphsPlaced]
           /\ x_offset = placed.cursor
                         + placed.glyph.advance_width * (config.length + 1) + spacing

\* C6 as stated: the cursor rule, and the cursor of a glyph is never to the
\* left of the cursor of the glyph before it.
C6_Original ==
    /\ CursorRule
    /\ (placed # None /\ rasterized_fonts # <<>>) => x_offset >= placed.cursor

\* C6 amended: the cursor rule, and the cursor of a glyph is not to the
\* left of the cursor of the glyph before it whenever the spacing is not
\* negative (the advances add up to at most the width).
C6_CursorRule ==
    /\ CursorRule
    /\ (placed # None /\ rasterized_fonts # <<>> /\ spacing >= 0) =>
           x_offset >= placed.cursor

C6_Witness ==
    /\ placed # None
    /\ rasterized_fonts # <<>>
    /\ spacing >= 0
    /\ placed.glyph.advance_width > 0
    /\ x_offset > placed.cursor

\* The order the claim gives: the glyphs, 5 lines, 2 curves, the encoding,
\* every stroke merged before the next event.
ExpectedEvents ==
    [i \in 1..config.length |-> "glyph"]
    \o Repeat(<<"line", "merge">>, 5)
    \o Repeat(<<"curve", "merge">>, 2)
    \o <<"encode">>

\* C7: the canvas is changed by the glyph overlays in text order, then by
\* exactly 5 lines, then by exactly 2 curves, each stroke merged right
\* after it is drawn, and only then encoded.
C7_EventOrder ==
    /\ IsPrefix(events, ExpectedEvents)
    /\ outcome = "ok" => events = ExpectedEvents
    /\ pc = "curves" => lines_drawn = 5
    /\ pc = "encode" => lines_drawn = 5 /\ curves_drawn = 2
    /\ placed # None => placed.glyph = TextGlyphs[GlyphsPlaced]

C7_Witness ==
    /\ outcome = "ok"
    /\ config.length = 2
    /\ Len(events) = 17

\* C8 as stated: the control point of a curve has width <= 4 * cx and
\* 4 * cx <= 3 * width, the curve runs from x = 0 to x = width, and its two
\* control points are one point.
C8_Original ==
    (stroke # None /\ stroke.kind = "curve") =>
        /\ 4 * stroke.c1[1] >= config.width
        /\ 4 * stroke.c1[1] <= 3 * config.width
        /\ stroke.from[1] = 0
        /\ stroke.to[1] = config.width
        /\ stroke.c1 = stroke.c2

\* C8 amended: the control point of a curve has width / 4 <= cx and
\* cx < (width / 4) * 3 in integer division, so width - 3 <= 4 * cx and
\* 4 * cx <= 3 * width; the curve runs from x = 0 to x = width, and its two
\* control points are one point.
C8_ControlPoint ==
    (stroke # None /\ stroke.kind = "curve") =>
        /\ stroke.c1[1] >= config.width \div 4
        /\ stroke.c1[1] < (config.width \div 4) * 3
        /\ 4 * stroke.c1[1] >= config.width - 3
        /\ 4 * stroke.c1[1] <= 3 * config.width
        /\ stroke.from[1] = 0
        /\ stroke.to[1] = config.width
        /\ stroke.c1 = stroke.c2

\* A control point left of a quarter of the width.
C8_Witness ==
    /\ stroke # None
    /\ stroke.kind = "curve"
    /\ 4 * stroke.c1[1] < config.width

\* C9: the truncated rotated box is at least as wide and as tall as the
\* glyph, so the offsets of lines 91-92 never underflow and the glyph lies
\* wholly inside the expanded canvas.
C9_NoUnderflow ==
    /\ fault # "sub_overflow"
    /\ placed # None =>
           /\ ~placed.wrapped
           /\ placed.rotated_width >= placed.glyph.width
           /\ placed.rotated_height >= placed.glyph.height
           /\ placed.shown_w = placed.glyph.width
           /\ placed.shown_h = placed.glyph.height

\* C10: with a loadable font every range the noise drawer samples from is
\* not empty, so the 5 lines and the 2 curves are drawn and generate gets
\* to the encoding.
C10_NoiseRangesNonEmpty ==
    /\ fault # "empty_range"
    /\ (pc = "done" /\ FontLoaded /\ fault \notin {"sub_overflow", "from_raw"}) =>
           lines_drawn = 5 /\ curves_drawn = 2

====
